---- MODULE Spec2Model ----
(***************************************************************************)
(* Model of the prescription allergy check of MedicalAssistant:            *)
(* main.py check_prescription, allergy_checker.py AllergyChecker,          *)
(* ai_agent.py MedicalAIAgent and groq_client.py GroqClient.               *)
(* Strings are TLA+ strings; Python None is the sentinel None, whose       *)
(* str() is "None".                                                        *)
(***************************************************************************)
EXTENDS Integers, Sequences, FiniteSets, TLC

\* ------------------------------------------------------------------ bounds
\* longest medicine list of a request
MaxMeds == 2

\* ------------------------------------------------------- Python primitives
None == "<None>"

\* str(v) as an f-string renders it
PyStr(v) == IF v = None THEN "None" ELSE v

\* what .first() returns when no row matches
NoRow == [id |-> 0]

Range(s) == {s[k] : k \in DOMAIN s}

RECURSIVE SeqOfSet(_)
SeqOfSet(S) == IF S = {} THEN <<>>
               ELSE LET m == CHOOSE x \in S : \A y \in S : x <= y
                    IN <<m>> \o SeqOfSet(S \ {m})

\* the rows of a table in primary-key order, as a query without ORDER BY
\* returns them from a table scan
RowsById(rows) ==
    LET ids == SeqOfSet({r.id : r \in rows})
    IN [k \in DOMAIN ids |-> CHOOSE r \in rows : r.id = ids[k]]

Lower(c) ==
    CASE c = "A" -> "a" [] c = "B" -> "b" [] c = "D" -> "d" [] c = "I" -> "i"
      [] c = "L" -> "l" [] c = "P" -> "p" [] c = "S" -> "s" [] c = "X" -> "x"
      [] OTHER -> c

RECURSIVE LikeMatch(_, _)
\* SQL ILIKE: % matches any run, _ any one character, letters ignore case
LikeMatch(p, s) ==
    IF p = "" THEN s = ""
    ELSE LET c == SubSeq(p, 1, 1) IN
         IF c = "%" THEN LikeMatch(Tail(p), s) \/ (s # "" /\ LikeMatch(p, Tail(s)))
         ELSE /\ s # ""
              /\ (c = "_" \/ Lower(c) = Lower(SubSeq(s, 1, 1)))
              /\ LikeMatch(Tail(p), Tail(s))

RECURSIVE LStrip(_, _)
LStrip(s, chars) ==
    IF s # "" /\ SubSeq(s, 1, 1) \in chars THEN LStrip(Tail(s), chars) ELSE s

RECURSIVE RStrip(_, _)
RStrip(s, chars) ==
    IF s # "" /\ SubSeq(s, Len(s), Len(s)) \in chars
    THEN RStrip(SubSeq(s, 1, Len(s) - 1), chars) ELSE s

\* str.strip(chars)
Strip(s, chars) == RStrip(LStrip(s, chars), chars)

Whitespace == {" "}

\* clean_medicine_name = medicine_name.strip().strip('"').strip("'")
CleanMedicineName(medicine_name) ==
    Strip(Strip(Strip(medicine_name, Whitespace), {"\""}), {"'"})

\* ------------------------------------------------------------------- state
VARIABLES
    drugs,                  \* table drugs
    drug_allergens,         \* table drug_allergens (the allergen catalog)
    drug_allergen_mapping,  \* table drug_allergen_mapping
    patient_allergy_table,  \* table patient_allergies, rows of the patient
    prescriptions,          \* table prescriptions (audit records)
    allergy_alerts,         \* table allergy_alerts (audit records)
    patient_exists,         \* the patient query finds a row
    medicines,              \* prescription_data.medicines
    hash_order,             \* iteration order of a str set in this process
    pc,                     \* position of check_prescription
    idx,                    \* index of the medicine the loop is at
    patient_allergies,      \* local: the active allergy rows
    warnings,               \* local: WarningItem list
    contraindications,      \* local: ContraindicationItem list
    safe_medicines,         \* local: names of safe medicines
    direct_conflicts,       \* local: matcher result of the current medicine
    oracle_call,            \* the llm.ainvoke of the current medicine
    checked,                \* log: one record per medicine the loop finished
    raised,                 \* log: the exceptions raised inside the handler
    response,               \* what the caller receives
    calls,                  \* the catalog calls in progress, by session
    history,                \* log: the catalog calls that returned
    lookup_name,            \* the string check_prescription looks a name up by
    upload                  \* position and locals of upload_prescription

vars == <<drugs, drug_allergens, drug_allergen_mapping, patient_allergy_table,
          prescriptions, allergy_alerts, patient_exists, medicines, hash_order,
          pc, idx, patient_allergies, warnings, contraindications,
          safe_medicines, direct_conflicts, oracle_call, checked, raised,
          response, calls, history, lookup_name, upload>>

tables == <<drugs, drug_allergens, drug_allergen_mapping, patient_allergy_table>>
audit == <<prescriptions, allergy_alerts>>
request == <<patient_exists, medicines>>
\* the state of the operations other than check_prescription
outside == <<calls, history, lookup_name, upload>>

\* -------------------------------------------------------------- input data
\* catalog rows the checks run against
AllergenRows ==
    { [id |-> 1, allergen_name |-> "Pen",      cross_sensitivity_group |-> "beta"],
      [id |-> 2, allergen_name |-> "Amox",     cross_sensitivity_group |-> "beta"],
      [id |-> 3, allergen_name |-> "Asp",      cross_sensitivity_group |-> "nsaids"],
      [id |-> 4, allergen_name |-> "Ibu",      cross_sensitivity_group |-> "nsaids"],
      [id |-> 5, allergen_name |-> "Latex",    cross_sensitivity_group |-> None],
      [id |-> 6, allergen_name |-> "Sulfa",    cross_sensitivity_group |-> "sulfa"],
      [id |-> 7, allergen_name |-> "DS_Sulfa", cross_sensitivity_group |-> None],
      [id |-> 8, allergen_name |-> "Sulfam",   cross_sensitivity_group |-> "sulfa"] }

DrugRows ==
    { [id |-> 1, drug_name |-> "Amox 500", generic_name |-> "Amoxi", active_ingredient |-> "Amox"],
      [id |-> 2, drug_name |-> "Ibu 200",  generic_name |-> "Ibu",   active_ingredient |-> "Ibu"],
      [id |-> 3, drug_name |-> "Lisin 10", generic_name |-> None,    active_ingredient |-> "Lisin"],
      [id |-> 4, drug_name |-> "Bac DS",   generic_name |-> "Sulfa", active_ingredient |-> None] }

MappingRows ==
    { [drug_id |-> 1, allergen_id |-> 1], [drug_id |-> 1, allergen_id |-> 2],
      [drug_id |-> 2, allergen_id |-> 4], [drug_id |-> 2, allergen_id |-> 5],
      [drug_id |-> 4, allergen_id |-> 6], [drug_id |-> 4, allergen_id |-> 7],
      [drug_id |-> 4, allergen_id |-> 4],
      \* a mapping whose allergen row is missing from the catalog
      [drug_id |-> 1, allergen_id |-> 99] }

\* allergy rows a patient may have on record
AllergyRows ==
    { [id |-> 1, allergen_id |-> 1, severity |-> "severe",           status |-> "active"],
      [id |-> 2, allergen_id |-> 2, severity |-> "mild",             status |-> "active"],
      [id |-> 3, allergen_id |-> 3, severity |-> "moderate",         status |-> "active"],
      [id |-> 4, allergen_id |-> 6, severity |-> "severe",           status |-> "active"],
      [id |-> 5, allergen_id |-> 7, severity |-> "severe",           status |-> "active"],
      [id |-> 6, allergen_id |-> 5, severity |-> "life_threatening", status |-> "inactive"],
      [id |-> 7, allergen_id |-> 4, severity |-> None,               status |-> "active"],
      [id |-> 8, allergen_id |-> 4, severity |-> "severe",           status |-> "resolved"],
      [id |-> 9, allergen_id |-> 8, severity |-> "mild",             status |-> "active"],
      \* an allergy whose allergen row is missing from the catalog
      [id |-> 10, allergen_id |-> 99, severity |-> "severe",         status |-> "active"] }

\* the allergy rows on record for the patient, by row id: none; one severe
\* allergy; a severe and a mild one to allergens of one drug; a moderate one
\* of a group; two whose names differ by a prefix; two of different groups,
\* neither to an allergen of the drug that overlaps both; an inactive and a
\* resolved one; one without severity; one next to an allergy to an allergen
\* the catalog does not hold
PatientProfiles ==
    { {}, {1}, {1, 2}, {3}, {4, 5}, {3, 9}, {6, 8}, {7}, {1, 10} }

MedicineNames == {"Amox", "ibu", "Lisin", "Xyz", "Bac", "Bac_DS"}

RECURSIVE SeqsUpTo(_, _)
SeqsUpTo(S, n) ==
    IF n = 0 THEN {<<>>}
    ELSE LET shorter == SeqsUpTo(S, n - 1)
         IN shorter \cup {Append(q, x) : q \in shorter, x \in S}

\* LikeMatch over the patterns and columns of the input data, computed once
LikePatterns ==
    {"%" \o n \o "%" : n \in MedicineNames \cup
                               {CleanMedicineName(m) : m \in MedicineNames}}

LikeColumns ==
    UNION {{d.drug_name, d.generic_name, d.active_ingredient} : d \in DrugRows}
    \ {None}

LikeHits == {q \in LikePatterns \X LikeColumns : LikeMatch(q[1], q[2])}

\* column.ilike(pattern); NULL matches nothing
ilike(column, pattern) ==
    /\ column # None
    /\ IF pattern \in LikePatterns /\ column \in LikeColumns
       THEN <<pattern, column>> \in LikeHits
       ELSE LikeMatch(pattern, column)

RECURSIVE Flatten(_)
Flatten(ss) == IF ss = <<>> THEN <<>> ELSE Head(ss) \o Flatten(Tail(ss))

\* ------------------------------------------------------------ drug lookup
\* db.query(Drug).filter(column.ilike(pattern)).first(): the first matching
\* row of the table scan
FirstDrug(column, pattern) ==
    LET hits == {d \in drugs : ilike(d[column], pattern)}
    IN IF hits = {} THEN NoRow
       ELSE CHOOSE d \in hits : \A e \in hits : d.id <= e.id

\* the three lookups of check_prescription joined by "or"
FindDrug(clean_medicine_name) ==
    LET pattern == "%" \o clean_medicine_name \o "%"
        by_name == FirstDrug("drug_name", pattern)
        by_generic == FirstDrug("generic_name", pattern)
        by_ingredient == FirstDrug("active_ingredient", pattern)
    IN IF by_name # NoRow THEN by_name
       ELSE IF by_generic # NoRow THEN by_generic
       ELSE by_ingredient

\* ---------------------------------------------------------------- matcher
\* db.query(DrugAllergen).filter(allergen_id == id).first()
AllergenById(id) ==
    LET hits == {a \in drug_allergens : a.id = id}
    IN IF hits = {} THEN NoRow ELSE CHOOSE a \in hits : TRUE

\* "if allergen and allergen.cross_sensitivity_group"
HasGroup(id) ==
    /\ AllergenById(id) # NoRow
    /\ AllergenById(id).cross_sensitivity_group \notin {None, ""}

Conflict(allergen, allergy, conflict_type, group) ==
    [ allergen_id |-> allergen.id,
      allergen_name |-> allergen.allergen_name,
      severity |-> allergy.severity,
      conflict_type |-> conflict_type,
      cross_sensitivity_group |-> group ]

GroupNames == <<"beta", "nsaids", "sulfa">>

\* "for group in overlapping_groups": a set of str is iterated in the order
\* of the hashes of this process
GroupIteration(overlapping_groups, order) ==
    LET asc == SelectSeq(GroupNames, LAMBDA g : g \in overlapping_groups)
    IN IF order = "desc"
       THEN [k \in DOMAIN asc |-> asc[Len(asc) + 1 - k]]
       ELSE asc

\* a matcher that leaves out the groups of the drug: every allergy of the
\* patient with a group gives a finding
CheckCrossSensitivityAnyGroup(allergies, drug_allergen_ids, order) ==
    LET patient_groups ==
            {AllergenById(a.allergen_id).cross_sensitivity_group :
                a \in {x \in Range(allergies) : HasGroup(x.allergen_id)}}
        groups == GroupIteration(patient_groups, order)
        OfGroup(group) ==
            Flatten([k \in DOMAIN allergies |->
                LET allergy == allergies[k]
                    allergen == AllergenById(allergy.allergen_id)
                IN IF allergen # NoRow /\ allergen.cross_sensitivity_group = group
                   THEN <<Conflict(allergen, allergy, "cross_sensitivity", group)>>
                   ELSE <<>>])
    IN Flatten([g \in DOMAIN groups |-> OfGroup(groups[g])])

\* AllergyChecker._check_cross_sensitivity
CheckCrossSensitivity(allergies, drug_allergen_ids, order) ==
    LET patient_groups ==
            {AllergenById(a.allergen_id).cross_sensitivity_group :
                a \in {x \in Range(allergies) : HasGroup(x.allergen_id)}}
        drug_groups ==
            {AllergenById(id).cross_sensitivity_group :
                id \in {x \in drug_allergen_ids : HasGroup(x)}}
        overlapping_groups == patient_groups \cap drug_groups
        groups == GroupIteration(overlapping_groups, order)
        OfGroup(group) ==
            Flatten([k \in DOMAIN allergies |->
                LET allergy == allergies[k]
                    allergen == AllergenById(allergy.allergen_id)
                IN IF allergen # NoRow /\ allergen.cross_sensitivity_group = group
                   THEN <<Conflict(allergen, allergy, "cross_sensitivity", group)>>
                   ELSE <<>>])
    IN Flatten([g \in DOMAIN groups |-> OfGroup(groups[g])])

DrugAllergenIds(drug) ==
    {m.allergen_id : m \in {x \in drug_allergen_mapping : x.drug_id = drug.id}}

\* how many groups the loop over overlapping_groups visits for this drug
OverlappingGroups(allergies, drug) ==
    {AllergenById(a.allergen_id).cross_sensitivity_group :
        a \in {x \in Range(allergies) : HasGroup(x.allergen_id)}}
    \cap {AllergenById(id).cross_sensitivity_group :
        id \in {x \in DrugAllergenIds(drug) : HasGroup(x)}}

\* a matcher whose lookup of a missing allergen row raises: its "except"
\* returns the findings collected up to there
CheckDirectAllergiesAborting(allergies, drug, order) ==
    LET drug_allergen_ids == DrugAllergenIds(drug)
        dangling == {k \in DOMAIN allergies :
                        /\ allergies[k].allergen_id \in drug_allergen_ids
                        /\ AllergenById(allergies[k].allergen_id) = NoRow}
        upto == IF dangling = {} THEN Len(allergies)
                ELSE (CHOOSE k \in dangling : \A j \in dangling : k <= j) - 1
        direct ==
            Flatten([k \in 1..upto |->
                LET allergy == allergies[k]
                    allergen == AllergenById(allergy.allergen_id)
                IN IF allergy.allergen_id \in drug_allergen_ids
                   THEN <<Conflict(allergen, allergy, "direct",
                                   allergen.cross_sensitivity_group)>>
                   ELSE <<>>])
    IN IF dangling = {}
       THEN direct \o CheckCrossSensitivity(allergies, drug_allergen_ids, order)
       ELSE direct

\* AllergyChecker.check_direct_allergies
CheckDirectAllergies(allergies, drug, order) ==
    LET drug_allergen_ids == DrugAllergenIds(drug)
        direct ==
            Flatten([k \in DOMAIN allergies |->
                LET allergy == allergies[k]
                    allergen == AllergenById(allergy.allergen_id)
                IN IF allergy.allergen_id \in drug_allergen_ids /\ allergen # NoRow
                   THEN <<Conflict(allergen, allergy, "direct",
                                   allergen.cross_sensitivity_group)>>
                   ELSE <<>>])
    IN direct \o CheckCrossSensitivity(allergies, drug_allergen_ids, order)

\* ----------------------------------------------------------------- oracle
Dict(fields) == [type |-> "dict", fields |-> fields]

IsDict(v) == v.type = "dict"

\* what self.llm.ainvoke does: it raises, or returns a content that is not
\* JSON, or a content json.loads turns into a value
OracleOutcomes ==
    { [kind |-> "raise"],
      [kind |-> "text"],
      [kind |-> "workflow_error"],
      [kind |-> "json", value |-> Dict([has_cross_reactivity |-> TRUE,
            confidence |-> "high", explanation |-> "cross-reactive",
            risk_level |-> "critical"])],
      [kind |-> "json", value |-> Dict([has_cross_reactivity |-> TRUE])],
      [kind |-> "json", value |-> Dict([has_cross_reactivity |-> FALSE,
            confidence |-> "high", explanation |-> "no cross-reactivity",
            risk_level |-> "low"])],
      [kind |-> "json", value |-> Dict([risk_level |-> "high"])],
      [kind |-> "json", value |-> Dict([has_cross_reactivity |-> TRUE,
            explanation |-> None])],
      [kind |-> "json", value |-> [type |-> "list"]] }

\* the client without its "except Exception" record: the call yields no dict
\* when llm.ainvoke raises
GroqAnalyzeWithoutFallback(outcome) ==
    CASE outcome.kind = "raise" -> [type |-> "NoneType"]
      [] outcome.kind = "text" ->
            Dict([has_cross_reactivity |-> FALSE, confidence |-> "low",
                  explanation |-> "Unable to parse AI response",
                  risk_level |-> "low"])
      [] OTHER -> outcome.value

\* GroqClient.analyze_cross_reactivity, from the await on
GroqAnalyzeCrossReactivity(outcome) ==
    CASE outcome.kind = "raise" ->
            Dict([has_cross_reactivity |-> FALSE, confidence |-> "low",
                  explanation |-> "Analysis error", risk_level |-> "low"])
      [] outcome.kind = "text" ->
            Dict([has_cross_reactivity |-> FALSE, confidence |-> "low",
                  explanation |-> "Unable to parse AI response",
                  risk_level |-> "low"])
      [] OTHER -> outcome.value

\* MedicalAIAgent.analyze_cross_reactivity: the workflow stores the client's
\* result under analysis_result.cross_reactivity and returns it; an exception
\* of the workflow itself gives the record of the except branch
AgentAnalyzeCrossReactivity(outcome) ==
    IF outcome.kind = "workflow_error"
    THEN Dict([has_cross_reactivity |-> FALSE, confidence |-> "low",
               explanation |-> "Error during analysis"])
    ELSE GroqAnalyzeCrossReactivity(outcome)

\* lines 189-201 of the agent: the allergy records put into the prompt
AllergyData(allergies) ==
    Flatten([k \in DOMAIN allergies |->
        LET allergy == allergies[k]
            allergen == AllergenById(allergy.allergen_id)
        IN IF allergen = NoRow THEN <<>>
           ELSE <<[ allergen_name |-> allergen.allergen_name,
                    severity |-> allergy.severity,
                    cross_sensitivity_group |->
                        allergen.cross_sensitivity_group ]>>])

\* dict.get(key, default)
Get(d, key, default) == IF key \in DOMAIN d.fields THEN d.fields[key] ELSE default

\* truth value of dict.get('has_cross_reactivity')
HasCrossReactivity(d) ==
    "has_cross_reactivity" \in DOMAIN d.fields /\ d.fields["has_cross_reactivity"] = TRUE

\* ------------------------------------------------------------- aggregator
WarningItem(medicine, allergen, severity, reason, confidence) ==
    [ medicine |-> medicine, allergen |-> allergen, severity |-> severity,
      reason |-> reason, confidence |-> confidence ]

ContraindicationItem(medicine, allergen, severity, reason) ==
    [ medicine |-> medicine, allergen |-> allergen, severity |-> severity,
      reason |-> reason ]

\* f"{medicine}_{allergen}_{severity}"
ConflictKey(medicine, allergen, severity) ==
    PyStr(medicine) \o "_" \o PyStr(allergen) \o "_" \o PyStr(severity)

ExistingKeys(items) ==
    {ConflictKey(x.medicine, x.allergen, x.severity) : x \in Range(items)}

\* "conflict['severity'] in ['life_threatening', 'severe']"
IsContraindication(severity) == severity \in {"life_threatening", "severe"}

\* a combination without the test for an existing key
IsNewConflictAlways(conflict_key, w, c) == TRUE

\* "conflict_key not in existing_contraindications and conflict_key not in
\* existing_warnings"
IsNewConflict(conflict_key, w, c) ==
    conflict_key \notin ExistingKeys(c) /\ conflict_key \notin ExistingKeys(w)

RECURSIVE CombineConflicts(_, _, _, _)
\* the loop "for conflict in direct_conflicts" over the two lists
CombineConflicts(conflicts, medicine_name, w, c) ==
    IF conflicts = <<>> THEN [warnings |-> w, contraindications |-> c]
    ELSE LET conflict == Head(conflicts)
             conflict_key == ConflictKey(medicine_name, conflict.allergen_name,
                                         conflict.severity)
         IN IF ~IsNewConflict(conflict_key, w, c)
            THEN CombineConflicts(Tail(conflicts), medicine_name, w, c)
            ELSE IF IsContraindication(conflict.severity)
            THEN CombineConflicts(Tail(conflicts), medicine_name, w,
                    Append(c, ContraindicationItem(medicine_name,
                        conflict.allergen_name, conflict.severity,
                        "Direct allergy match")))
            ELSE CombineConflicts(Tail(conflicts), medicine_name,
                    Append(w, WarningItem(medicine_name, conflict.allergen_name,
                        conflict.severity, "Known allergy", None)), c)

\* the WarningItem of the "elif" branch; reason is a required str
AdvisoryWarning(medicine_name, cross_reactivity_result) ==
    WarningItem(medicine_name, None, None,
        Get(cross_reactivity_result, "explanation",
            "Potential cross-reactivity detected"),
        Get(cross_reactivity_result, "confidence", "medium"))

\* a judgment of critical risk promoted to a contraindication
AddAdvisoryPromoting(medicine_name, cross_reactivity_result, w, c) ==
    IF Get(cross_reactivity_result, "risk_level", "low") = "critical"
    THEN [ warnings |-> w,
           contraindications |-> Append(c, ContraindicationItem(medicine_name,
                "", "critical",
                Get(cross_reactivity_result, "explanation", ""))) ]
    ELSE [ warnings |-> Append(w, AdvisoryWarning(medicine_name,
                                                  cross_reactivity_result)),
           contraindications |-> c ]

\* the judgment put in front of the warnings collected so far
AddAdvisoryInFront(medicine_name, cross_reactivity_result, w, c) ==
    [ warnings |-> <<AdvisoryWarning(medicine_name, cross_reactivity_result)>>
                   \o w,
      contraindications |-> c ]

\* lines 222-227: the model's judgment goes to the warnings
AddAdvisory(medicine_name, cross_reactivity_result, w, c) ==
    [ warnings |-> Append(w, AdvisoryWarning(medicine_name,
                                             cross_reactivity_result)),
      contraindications |-> c ]

\* the combination that reports the model's judgment next to the findings
CombineResultsEmittingBoth(conflicts, cross_reactivity_result, medicine_name, w, c) ==
    IF conflicts # <<>>
    THEN LET combined == CombineConflicts(conflicts, medicine_name, w, c)
         IN IF /\ IsDict(cross_reactivity_result)
               /\ HasCrossReactivity(cross_reactivity_result)
               /\ Get(cross_reactivity_result, "explanation", "") # None
            THEN AddAdvisory(medicine_name, cross_reactivity_result,
                             combined.warnings, combined.contraindications)
            ELSE combined
    ELSE AddAdvisory(medicine_name, cross_reactivity_result, w, c)

\* lines 196-227: "if direct_conflicts: ... elif
\* cross_reactivity_result.get('has_cross_reactivity'): ..."
CombineResults(conflicts, cross_reactivity_result, medicine_name, w, c) ==
    IF conflicts # <<>>
    THEN CombineConflicts(conflicts, medicine_name, w, c)
    ELSE AddAdvisory(medicine_name, cross_reactivity_result, w, c)

\* the "elif" branch raises: .get on a value that is no dict, or a reason
\* the WarningItem model rejects
AdvisoryRaises(cross_reactivity_result) ==
    \/ ~IsDict(cross_reactivity_result)
    \/ /\ HasCrossReactivity(cross_reactivity_result)
       /\ Get(cross_reactivity_result, "explanation", "") = None

\* s[:n]
Prefix(s, n) == SubSeq(s, 1, IF Len(s) < n THEN Len(s) ELSE n)

RECURSIVE Join(_, _)
\* sep.join(parts)
Join(sep, parts) ==
    IF parts = <<>> THEN ""
    ELSE IF Len(parts) = 1 THEN parts[1]
    ELSE parts[1] \o sep \o Join(sep, Tail(parts))

RECURSIVE Unique(_, _)
\* "if s not in unique_suggestions: unique_suggestions.append(s)"
Unique(suggestions, unique_suggestions) ==
    IF suggestions = <<>> THEN unique_suggestions
    ELSE Unique(Tail(suggestions),
                IF Head(suggestions) \in Range(unique_suggestions)
                THEN unique_suggestions
                ELSE Append(unique_suggestions, Head(suggestions)))

\* lines 151-177: the names the prefix and the substring queries suggest
SuggestionText(clean_medicine_name) ==
    LET prefix == Prefix(clean_medicine_name, 3) \o "%"
        pattern == "%" \o clean_medicine_name \o "%"
        rows == RowsById(drugs)
        prefix_matches ==
            IF Len(clean_medicine_name) >= 3
            THEN Prefix(SelectSeq(rows, LAMBDA d :
                     ilike(d.drug_name, prefix) \/ ilike(d.generic_name, prefix)), 3)
            ELSE <<>>
        substring_matches ==
            Prefix(SelectSeq(rows, LAMBDA d :
                \/ ilike(d.drug_name, pattern)
                \/ ilike(d.generic_name, pattern)
                \/ ilike(d.active_ingredient, pattern)), 2)
        suggestions ==
            [k \in DOMAIN prefix_matches |-> prefix_matches[k].drug_name]
            \o [k \in DOMAIN substring_matches |-> substring_matches[k].drug_name]
        unique_suggestions == Unique(suggestions, <<>>)
    IN IF unique_suggestions = <<>> THEN ""
       ELSE " Did you mean: " \o Join(", ", Prefix(unique_suggestions, 3)) \o "?"

\* the reason of the warning for a name without a catalog row
NotFoundReason(medicine_name, suggestion_text) ==
    "Medicine '" \o medicine_name \o "' not found in drug database. "
    \o "Please verify the spelling or check if it's available under a "
    \o "different name." \o suggestion_text

\* a warning that only asks to verify the spelling
NotFoundWarningSpellingOnly(medicine_name) ==
    WarningItem(medicine_name, None, None, "Please verify the spelling", "high")

\* lines 179-183
NotFoundWarning(medicine_name) ==
    WarningItem(medicine_name, None, None,
        NotFoundReason(medicine_name,
                       SuggestionText(CleanMedicineName(medicine_name))),
        "high")

\* a verdict that also asks for an empty warnings list
IsSafeWithoutWarnings(w, c) == Len(c) = 0 /\ Len(w) = 0

\* is_safe = len(contraindications) == 0
IsSafe(w, c) == Len(c) = 0

\* the outer "except Exception": every exception becomes a 500
InternalServerError == [status |-> 500]

NoResponse == [status |-> 0]

NoCall == [state |-> "none"]

NoUpload == [pc |-> "idle"]

\* ---------------------------------------------------------------- actions
Init ==
    /\ drugs = DrugRows
    /\ drug_allergens = AllergenRows
    /\ drug_allergen_mapping = MappingRows
    /\ patient_exists \in BOOLEAN
    /\ patient_allergy_table \in
         IF patient_exists
         THEN {{r \in AllergyRows : r.id \in ids} : ids \in PatientProfiles}
         ELSE {{}}
    /\ medicines \in SeqsUpTo(MedicineNames, MaxMeds)
    /\ prescriptions = <<>>
    /\ allergy_alerts = <<>>
    /\ hash_order = "unset"
    /\ pc = "start"
    /\ idx = 0
    /\ patient_allergies = <<>>
    /\ warnings = <<>>
    /\ contraindications = <<>>
    /\ safe_medicines = <<>>
    /\ direct_conflicts = <<>>
    /\ oracle_call = NoCall
    /\ checked = <<>>
    /\ raised = <<>>
    /\ response = NoResponse
    /\ calls = <<>>
    /\ history = <<>>
    /\ lookup_name = None
    /\ upload = NoUpload

\* the rows of the patient whatever their status
AllAllergies(rows) == RowsById(rows)

\* lines 119-122: the rows of the patient with status 'active'
ActiveAllergies(rows) ==
    SelectSeq(RowsById(rows), LAMBDA r : r.status = "active")

\* lines 104-126: the patient query, the 404, the active allergies
FindPatient ==
    /\ pc = "start"
    /\ IF ~patient_exists
       THEN /\ raised' = Append(raised, "HTTPException 404")
            /\ response' = InternalServerError
            /\ pc' = "error"
            /\ UNCHANGED <<idx, patient_allergies>>
       ELSE /\ patient_allergies' = ActiveAllergies(patient_allergy_table)
            /\ idx' = 1
            /\ pc' = "loop"
            /\ UNCHANGED <<raised, response>>
    /\ UNCHANGED <<outside, tables, audit, request, hash_order, warnings,
                   contraindications, safe_medicines, direct_conflicts,
                   oracle_call, checked>>

\* lines 137-147 raise: a query of the drug table fails
DrugQueryFails ==
    /\ pc = "loop"
    /\ idx <= Len(medicines)
    /\ raised' = Append(raised, "OperationalError")
    /\ checked' = Append(checked,
          [medicine |-> medicines[idx], drug_id |-> 0, conflicts |-> <<>>,
           outcome |-> "error"])
    /\ response' = InternalServerError
    /\ pc' = "error"
    /\ oracle_call' = NoCall
    /\ direct_conflicts' = <<>>
    /\ UNCHANGED <<outside, tables, audit, request, hash_order, idx, patient_allergies,
                   warnings, contraindications, safe_medicines>>

\* lines 129-184: the medicine does not resolve
MedicineNotFound ==
    /\ pc = "loop"
    /\ idx <= Len(medicines)
    /\ LET medicine_name == medicines[idx]
       IN /\ FindDrug(CleanMedicineName(medicine_name)) = NoRow
          /\ warnings' = Append(warnings, NotFoundWarning(medicine_name))
          /\ checked' = Append(checked,
                [medicine |-> medicine_name, drug_id |-> 0,
                 conflicts |-> <<>>, outcome |-> "not_found"])
    /\ idx' = idx + 1
    /\ oracle_call' = NoCall
    /\ direct_conflicts' = <<>>
    /\ UNCHANGED <<outside, tables, audit, request, hash_order, pc, patient_allergies,
                   contraindications, safe_medicines, raised, response>>

\* lines 186-194 up to the await of llm.ainvoke: the drug resolves, the
\* matcher runs, the agent calls the model, whose answer is on its way or
\* never comes
CallOracle ==
    /\ pc = "loop"
    /\ idx <= Len(medicines)
    /\ LET drug == FindDrug(CleanMedicineName(medicines[idx]))
       IN /\ drug # NoRow
          /\ hash_order' \in
               IF /\ hash_order = "unset"
                  /\ Cardinality(OverlappingGroups(patient_allergies, drug)) > 1
               THEN {"asc", "desc"} ELSE {hash_order}
          /\ direct_conflicts' =
               CheckDirectAllergies(patient_allergies, drug, hash_order')
    /\ oracle_call' \in
         {[state |-> st, allergy_data |-> AllergyData(patient_allergies)] :
             st \in {"pending", "never"}}
    /\ pc' = "await_oracle"
    /\ UNCHANGED <<outside, tables, audit, request, idx, patient_allergies, warnings,
                   contraindications, safe_medicines, checked, raised,
                   response>>

\* lines 192-230 from the await on, for one outcome of llm.ainvoke: the agent
\* returns, the results are combined into the three lists
OracleReturnsWith(outcome) ==
    /\ pc = "await_oracle"
    /\ oracle_call.state = "pending"
    /\ LET medicine_name == medicines[idx]
           drug == FindDrug(CleanMedicineName(medicine_name))
           cross_reactivity_result ==
               AgentAnalyzeCrossReactivity(outcome)
           combined == CombineResults(direct_conflicts,
                                      cross_reactivity_result, medicine_name,
                                      warnings, contraindications)
           Log(result) ==
               checked' = Append(checked,
                   [medicine |-> medicine_name, drug_id |-> drug.id,
                    conflicts |-> direct_conflicts, outcome |-> result])
           Continue ==
               /\ idx' = idx + 1
               /\ pc' = "loop"
               /\ UNCHANGED <<raised, response>>
       IN IF direct_conflicts # <<>>
          THEN /\ warnings' = combined.warnings
               /\ contraindications' = combined.contraindications
               /\ UNCHANGED safe_medicines
               /\ Log("conflict") /\ Continue
          ELSE IF AdvisoryRaises(cross_reactivity_result)
          THEN /\ raised' = Append(raised,
                     IF IsDict(cross_reactivity_result)
                     THEN "ValidationError" ELSE "AttributeError")
               /\ response' = InternalServerError
               /\ pc' = "error"
               /\ Log("error")
               /\ UNCHANGED <<idx, warnings, contraindications,
                              safe_medicines>>
          ELSE IF HasCrossReactivity(cross_reactivity_result)
          THEN /\ warnings' = combined.warnings
               /\ contraindications' = combined.contraindications
               /\ UNCHANGED safe_medicines
               /\ Log("advisory") /\ Continue
          ELSE /\ safe_medicines' = Append(safe_medicines, medicine_name)
               /\ UNCHANGED <<warnings, contraindications>>
               /\ Log("safe") /\ Continue
    /\ oracle_call' = [state |-> "returned", outcome |-> outcome]
    /\ UNCHANGED <<outside, tables, audit, request, hash_order, patient_allergies,
                   direct_conflicts>>

OracleReturns == \E outcome \in OracleOutcomes : OracleReturnsWith(outcome)

\* ---------------------------------------------------------------- summary
SummaryOutcomes ==
    { [kind |-> "raise"],
      [kind |-> "text"],
      [kind |-> "json", value |-> Dict([summary |-> "All medicines reviewed",
            recommendations |-> "given", risk_level |-> "low"])],
      [kind |-> "json", value |-> Dict([summary |-> "All medicines reviewed",
            recommendations |-> "given", risk_level |-> "critical"])],
      [kind |-> "json", value |-> Dict([summary |-> "All medicines reviewed"])],
      [kind |-> "json", value |-> [type |-> "list"]] }

\* GroqClient.generate_prescription_summary, from the await on
GroqGenerateSummary(outcome, w, c) ==
    CASE outcome.kind = "raise" ->
            Dict([summary |-> "Analysis error",
                  recommendations |-> "Manual review required",
                  risk_level |-> "medium"])
      [] outcome.kind = "text" ->
            Dict([summary |-> "Analysis completed",
                  recommendations |-> "fallback",
                  risk_level |-> IF c # <<>> THEN "high"
                                 ELSE IF w # <<>> THEN "medium" ELSE "low"])
      [] OTHER -> outcome.value

AIAnalysis(summary, recommendations, risk_level) ==
    [ summary |-> summary, recommendations |-> recommendations,
      risk_level |-> risk_level ]

\* MedicalAIAgent.generate_summary
GenerateSummary(outcome, w, c) ==
    LET summary_result == GroqGenerateSummary(outcome, w, c)
        by_counts == IF c # <<>> THEN "contraindicated"
                     ELSE IF w # <<>> THEN "caution" ELSE "safe"
    IN IF ~IsDict(summary_result)
       THEN AIAnalysis("Analysis completed with errors",
                       "Manual review recommended", "medium")
       ELSE AIAnalysis(
                Get(summary_result, "summary", by_counts),
                Get(summary_result, "recommendations", by_counts),
                Get(summary_result, "risk_level",
                    IF c = <<>> /\ w = <<>> THEN "low" ELSE "medium"))

RECURSIVE AuditRows(_, _, _)
\* lines 249-285: the rows the audit block adds for the medicines of names,
\* looked up by the name as given
AuditRows(names, w, c) ==
    IF names = <<>> THEN [prescriptions |-> <<>>, alerts |-> <<>>]
    ELSE LET medicine_name == Head(names)
             pattern == "%" \o medicine_name \o "%"
             drug == FirstDrug("drug_name", pattern)
             rest == AuditRows(Tail(names), w, c)
             Alert(level) == [alert_level |-> level, medicine |-> medicine_name]
             of_w == SelectSeq(w, LAMBDA x : x.medicine = medicine_name)
             of_c == SelectSeq(c, LAMBDA x : x.medicine = medicine_name)
         IN IF drug = NoRow THEN rest
            ELSE [ prescriptions |->
                     <<[drug_id |-> drug.id, medicine |-> medicine_name]>>
                     \o rest.prescriptions,
                   alerts |->
                     [k \in DOMAIN of_w |-> Alert("warning")]
                     \o [k \in DOMAIN of_c |-> Alert("contraindication")]
                     \o rest.alerts ]

\* a commit that also closes the allergies it reported
CommitClosingAllergies(rows, commit_ok) ==
    /\ IF commit_ok
       THEN /\ prescriptions' = prescriptions \o rows.prescriptions
            /\ allergy_alerts' = allergy_alerts \o rows.alerts
            /\ patient_allergy_table' =
                 IF rows.alerts = <<>> THEN patient_allergy_table
                 ELSE {[r EXCEPT !.status = "resolved"] :
                          r \in patient_allergy_table}
       ELSE UNCHANGED <<audit, patient_allergy_table>>
    /\ UNCHANGED <<drugs, drug_allergens, drug_allergen_mapping>>

\* lines 247-291: the session holds only the Prescription and AllergyAlert
\* rows added; db.commit() writes them, or fails and db.rollback() drops them
Commit(rows, commit_ok) ==
    /\ IF commit_ok
       THEN /\ prescriptions' = prescriptions \o rows.prescriptions
            /\ allergy_alerts' = allergy_alerts \o rows.alerts
       ELSE UNCHANGED audit
    /\ UNCHANGED tables

\* lines 232-295: the verdict, the summary, the audit rows, the return
Respond ==
    /\ pc = "loop"
    /\ idx > Len(medicines)
    /\ LET rows == AuditRows(medicines, warnings, contraindications)
       IN \E commit_ok \in BOOLEAN : Commit(rows, commit_ok)
    /\ \E outcome \in SummaryOutcomes :
         response' =
            [ status |-> 200,
              is_safe |-> IsSafe(warnings, contraindications),
              warnings |-> warnings,
              contraindications |-> contraindications,
              safe_medicines |-> safe_medicines,
              ai_analysis |-> GenerateSummary(outcome, warnings,
                                              contraindications) ]
    /\ pc' = "done"
    /\ oracle_call' = NoCall
    /\ UNCHANGED <<outside, request, hash_order, idx, patient_allergies,
                   warnings, contraindications, safe_medicines,
                   direct_conflicts, checked, raised>>

Next ==
    \/ FindPatient
    \/ DrugQueryFails
    \/ MedicineNotFound
    \/ CallOracle
    \/ OracleReturns
    \/ Respond

Spec == Init /\ [][Next]_vars

\* an answer of the model that is on its way arrives
FairSpec == Spec /\ WF_vars(Next)

\* ------------------------------------------------- the cleaning of a name
\* the state of check_prescription and of the tables
handler == <<drugs, drug_allergens, drug_allergen_mapping,
             patient_allergy_table, prescriptions, allergy_alerts,
             patient_exists, medicines, hash_order, pc, idx,
             patient_allergies, warnings, contraindications, safe_medicines,
             direct_conflicts, oracle_call, checked, raised, response>>

\* no request has come in: the tables as loaded, the locals of
\* check_prescription empty
NoRequest ==
    /\ drugs = DrugRows
    /\ patient_allergy_table = {}
    /\ prescriptions = <<>>
    /\ allergy_alerts = <<>>
    /\ patient_exists = TRUE
    /\ hash_order = "unset"
    /\ idx = 0
    /\ patient_allergies = <<>>
    /\ warnings = <<>>
    /\ contraindications = <<>>
    /\ safe_medicines = <<>>
    /\ direct_conflicts = <<>>
    /\ oracle_call = NoCall
    /\ checked = <<>>
    /\ raised = <<>>
    /\ response = NoResponse

\* longest run of spaces and quotes on one side of a name
MaxWrap == 2

\* the characters a client wraps a name in
WrapChars == {" ", "\"", "'"}

RECURSIVE Wrappings(_)
\* the strings of up to n wrapping characters
Wrappings(n) ==
    IF n = 0 THEN {""}
    ELSE LET shorter == Wrappings(n - 1)
         IN shorter \cup {w \o c : w \in shorter, c \in WrapChars}

\* a request with one medicine, a name wrapped in spaces and quotes
CleanInit ==
    /\ NoRequest
    /\ drug_allergens = AllergenRows
    /\ drug_allergen_mapping = MappingRows
    /\ medicines \in {<<before \o name \o after>> :
                        before \in Wrappings(MaxWrap),
                        after \in Wrappings(MaxWrap),
                        name \in {"Amox", "Bac DS"}}
    /\ pc = "clean"
    /\ calls = <<>>
    /\ history = <<>>
    /\ lookup_name = None
    /\ upload = NoUpload

\* line 134: the name the three drug queries are built from
CleanName ==
    /\ pc = "clean"
    /\ lookup_name' = CleanMedicineName(medicines[1])
    /\ pc' = "lookup"
    /\ UNCHANGED <<drugs, drug_allergens, drug_allergen_mapping,
                   patient_allergy_table, prescriptions, allergy_alerts,
                   patient_exists, medicines, hash_order, idx,
                   patient_allergies, warnings, contraindications,
                   safe_medicines, direct_conflicts, oracle_call, checked,
                   raised, response, calls, history, upload>>

CleanNext == CleanName

CleanSpec == CleanInit /\ [][CleanNext]_vars

\* ------------------------------------------------------ upload_prescription
\* most names a prescription text holds
MaxExtracted == 11

\* the i-th medicine name of a prescription text
NameOf(i) == "Med" \o SubSeq("abcdefghijklmnopqrstuvwxyz", i, i)

\* what the three patterns of _extract_medicines_with_regex match in a text
\* of n names: the names; the names, each found by two patterns; the names
\* with an instruction word and a two-letter word after each
Texts ==
    UNION {{ [k \in 1..n |-> NameOf(k)],
             [k \in 1..(2 * n) |-> NameOf(((k - 1) % n) + 1)],
             Flatten([k \in 1..n |-> <<NameOf(k), "Take", "Ab">>]) } :
           n \in 0..MaxExtracted}

\* _clean_medicine_name: the form and instruction words are taken out
CleanExtractedName(name) ==
    IF name \in {"Take", "take", "Daily", "daily"} THEN "" ELSE name

UpperCase ==
    {SubSeq("ABCDEFGHIJKLMNOPQRSTUVWXYZ", k, k) : k \in 1..26}

\* _is_valid_medicine_name, for names of letters
IsValidMedicineName(name) ==
    /\ name # ""
    /\ Len(name) >= 3
    /\ name \notin {"let", "take", "daily", "the", "for", "and"}
    /\ SubSeq(name, 1, 1) \in UpperCase
    /\ Len(name) <= 20

RECURSIVE UniqueMedicines(_, _)
\* "Remove duplicates while preserving order"
UniqueMedicines(names, seen) ==
    IF names = <<>> THEN <<>>
    ELSE IF Head(names) \in seen THEN UniqueMedicines(Tail(names), seen)
    ELSE <<Head(names)>> \o
         UniqueMedicines(Tail(names), seen \cup {Head(names)})

\* _extract_medicines_with_regex
ExtractMedicinesWithRegex(matches) ==
    LET cleaned == [k \in DOMAIN matches |-> CleanExtractedName(matches[k])]
    IN UniqueMedicines(SelectSeq(cleaned, IsValidMedicineName), {})

\* _extract_medicines_with_ai: GroqClient has no get_completion, the call
\* at line 259 raises AttributeError and the handler at lines 293-296 falls
\* back to the patterns
ExtractMedicinesWithAI(matches) == ExtractMedicinesWithRegex(matches)

\* an upload comes in: no file name, an empty file, a PDF or a file of a
\* type that is not read; the OCR libraries installed or not
UploadInit ==
    /\ NoRequest
    /\ drug_allergens = AllergenRows
    /\ drug_allergen_mapping = MappingRows
    /\ medicines = <<>>
    /\ pc = "idle"
    /\ calls = <<>>
    /\ history = <<>>
    /\ lookup_name = None
    /\ upload \in [ pc : {"start"},
                    file : {"none", "empty", "pdf", "txt"},
                    ocr_available : BOOLEAN,
                    matches : Texts,
                    extracted_medicines : {<<>>},
                    request_medicines : {<<>>},
                    response : {NoResponse} ]

UploadUnchanged == UNCHANGED <<handler, calls, history, lookup_name>>

\* lines 422-429: the two 400s, each caught at line 473 and raised as a 500
ValidateFile ==
    /\ upload.pc = "start"
    /\ upload' = IF upload.file \in {"none", "empty"}
                 THEN [upload EXCEPT !.pc = "done",
                                     !.response = InternalServerError]
                 ELSE [upload EXCEPT !.pc = "ocr"]
    /\ UploadUnchanged

\* lines 431-445: extract_medicines_from_file and the answer to a failure
ExtractMedicinesFromFile ==
    /\ upload.pc = "ocr"
    /\ upload' = IF ~upload.ocr_available \/ upload.file = "txt"
                 THEN [upload EXCEPT !.pc = "done",
                          !.response = [status |-> 200, success |-> FALSE]]
                 ELSE [upload EXCEPT !.pc = "extracted",
                          !.extracted_medicines =
                              ExtractMedicinesWithAI(upload.matches)]
    /\ UploadUnchanged

\* lines 447-471: the PrescriptionRequest of the extracted names, or the
\* answer that no medicine was found
RunPrescriptionCheck ==
    /\ upload.pc = "extracted"
    /\ upload' = IF upload.extracted_medicines # <<>>
                 THEN [upload EXCEPT !.pc = "checking",
                          !.request_medicines = upload.extracted_medicines]
                 ELSE [upload EXCEPT !.pc = "done",
                          !.response = [status |-> 200, success |-> TRUE]]
    /\ UploadUnchanged

\* lines 456-464, 473-475: check_prescription returns or raises
PrescriptionCheckReturns ==
    /\ upload.pc = "checking"
    /\ \E r \in {[status |-> 200, success |-> TRUE], InternalServerError} :
         upload' = [upload EXCEPT !.pc = "done", !.response = r]
    /\ UploadUnchanged

UploadNext ==
    \/ ValidateFile
    \/ ExtractMedicinesFromFile
    \/ RunPrescriptionCheck
    \/ PrescriptionCheckReturns

UploadSpec == UploadInit /\ [][UploadNext]_vars

\* ------------------------------------------------------ the catalog calls
\* most catalog calls made in one behaviour
MaxCalls == 3

\* allergen names the catalog is asked for: one that differs in case from a
\* name on record, a new one, a new one with a wildcard of LIKE
CatalogNames == {"pen", "Ceph", "C_ph"}

\* (drug_id, allergen_id) pairs the mapping is asked for: one on record, a
\* new one
MapPairs == {<<1, 1>>, <<3, 3>>}

\* a session that is in no call
Idle == [pc |-> "idle"]

\* a name that has to match as it is written
GetAllergenByNameExact(allergen_name) ==
    LET hits == {a \in drug_allergens : a.allergen_name = allergen_name}
    IN IF hits = {} THEN NoRow
       ELSE CHOOSE a \in hits : \A b \in hits : a.id <= b.id

\* AllergyChecker.get_allergen_by_name: ilike(f"%{allergen_name}%").first()
GetAllergenByName(allergen_name) ==
    LET hits == {a \in drug_allergens :
                    LikeMatch("%" \o allergen_name \o "%", a.allergen_name)}
    IN IF hits = {} THEN NoRow
       ELSE CHOOSE a \in hits : \A b \in hits : a.id <= b.id

\* a lookup that never finds the pair
MappingNeverFound(drug_id, allergen_id) == FALSE

\* the query of map_drug_to_allergen finds a row
MappingExists(drug_id, allergen_id) ==
    \E m \in drug_allergen_mapping :
        m.drug_id = drug_id /\ m.allergen_id = allergen_id

\* the allergen_id an INSERT gives a new row
NextAllergenId ==
    LET ids == {a.id : a \in drug_allergens}
    IN 1 + CHOOSE m \in ids : \A x \in ids : x <= m

\* the calls begun so far
Started ==
    Len(history) + Cardinality({p \in DOMAIN calls : calls[p].pc # "idle"})

\* one session, or two that run side by side, each on its own Session
CatalogInit ==
    /\ NoRequest
    /\ drug_allergens = AllergenRows
    /\ drug_allergen_mapping = MappingRows
    /\ medicines = <<>>
    /\ pc = "idle"
    /\ calls \in {[p \in 1..n |-> Idle] : n \in {1, 2}}
    /\ history = <<>>
    /\ lookup_name = None
    /\ upload = NoUpload

CatalogUnchanged ==
    UNCHANGED <<drugs, patient_allergy_table, prescriptions, allergy_alerts,
                patient_exists, medicines, hash_order, pc, idx,
                patient_allergies, warnings, contraindications,
                safe_medicines, direct_conflicts, oracle_call, checked,
                raised, response, lookup_name, upload>>

\* create_allergen_if_not_exists, lines 151-153: the lookup and the return
\* of the row it finds
CreateLookup(p, allergen_name) ==
    /\ calls[p].pc = "idle"
    /\ Started < MaxCalls
    /\ LET existing == GetAllergenByName(allergen_name)
       IN IF existing # NoRow
          THEN /\ history' = Append(history,
                    [ session |-> p, op |-> "create", arg |-> allergen_name,
                      before |-> drug_allergens, after |-> drug_allergens,
                      inserted |-> {}, returned |-> existing,
                      error |-> None ])
               /\ UNCHANGED calls
          ELSE /\ calls' = [calls EXCEPT ![p] =
                    [ pc |-> "create_insert", arg |-> allergen_name,
                      before |-> drug_allergens ]]
               /\ UNCHANGED history
    /\ UNCHANGED <<drug_allergens, drug_allergen_mapping>>
    /\ CatalogUnchanged

\* create_allergen_if_not_exists, lines 155-165: add, commit, refresh
CreateInsert(p) ==
    /\ calls[p].pc = "create_insert"
    /\ LET new_allergen == [ id |-> NextAllergenId,
                             allergen_name |-> calls[p].arg,
                             cross_sensitivity_group |-> None ]
       IN /\ drug_allergens' = drug_allergens \cup {new_allergen}
          /\ history' = Append(history,
               [ session |-> p, op |-> "create", arg |-> calls[p].arg,
                 before |-> calls[p].before, after |-> drug_allergens',
                 inserted |-> {new_allergen}, returned |-> new_allergen,
                 error |-> None ])
    /\ calls' = [calls EXCEPT ![p] = Idle]
    /\ UNCHANGED drug_allergen_mapping
    /\ CatalogUnchanged

\* map_drug_to_allergen, lines 171-176: the lookup, and the return when the
\* pair is on record
MapLookup(p, drug_id, allergen_id) ==
    /\ calls[p].pc = "idle"
    /\ Started < MaxCalls
    /\ IF MappingExists(drug_id, allergen_id)
       THEN /\ history' = Append(history,
                 [ session |-> p, op |-> "map",
                   arg |-> <<drug_id, allergen_id>>,
                   before |-> drug_allergen_mapping,
                   after |-> drug_allergen_mapping,
                   inserted |-> {}, returned |-> None, error |-> None ])
            /\ UNCHANGED calls
       ELSE /\ calls' = [calls EXCEPT ![p] =
                 [ pc |-> "map_insert", arg |-> <<drug_id, allergen_id>>,
                   before |-> drug_allergen_mapping ]]
            /\ UNCHANGED history
    /\ UNCHANGED <<drug_allergens, drug_allergen_mapping>>
    /\ CatalogUnchanged

\* map_drug_to_allergen, lines 177-182: add and commit; the composite
\* primary key of the table refuses a pair that is on record by now
MapInsert(p) ==
    /\ calls[p].pc = "map_insert"
    /\ LET mapping == [ drug_id |-> calls[p].arg[1],
                        allergen_id |-> calls[p].arg[2] ]
           refused == MappingExists(calls[p].arg[1], calls[p].arg[2])
       IN /\ drug_allergen_mapping' =
                IF refused THEN drug_allergen_mapping
                ELSE drug_allergen_mapping \cup {mapping}
          /\ history' = Append(history,
               [ session |-> p, op |-> "map", arg |-> calls[p].arg,
                 before |-> calls[p].before,
                 after |-> drug_allergen_mapping',
                 inserted |-> IF refused THEN {} ELSE {mapping},
                 returned |-> None,
                 error |-> IF refused THEN "IntegrityError" ELSE None ])
    /\ calls' = [calls EXCEPT ![p] = Idle]
    /\ UNCHANGED drug_allergens
    /\ CatalogUnchanged

CatalogNext ==
    \/ \E p \in DOMAIN calls, allergen_name \in CatalogNames :
            CreateLookup(p, allergen_name)
    \/ \E p \in DOMAIN calls : CreateInsert(p)
    \/ \E p \in DOMAIN calls, pair \in MapPairs :
            MapLookup(p, pair[1], pair[2])
    \/ \E p \in DOMAIN calls : MapInsert(p)

CatalogSpec == CatalogInit /\ [][CatalogNext]_vars

\* ----------------------------------------------------------------- claims
Triple(x) == <<x.medicine, x.allergen, x.severity>>

Last(q) == q[Len(q)]

\* the entries of the response, warnings first
Entries(r) == r.warnings \o r.contraindications

Answered == pc = "done" /\ response.status = 200

\* C1: after check_prescription no two entries of warnings together with
\* contraindications share the same (medicine, allergen, severity) triple
C1_NoTripleTwice ==
    Answered =>
        \A i, j \in DOMAIN Entries(response) :
            i # j => Triple(Entries(response)[i]) # Triple(Entries(response)[j])

\* a finding of the matcher is represented in a list by an entry with its
\* medicine, allergen and severity
Represented(medicine, conflict, items) ==
    \E x \in Range(items) :
        Triple(x) = <<medicine, conflict.allergen_name, conflict.severity>>

\* C2: every finding the matcher returned is represented in contraindications
\* exactly when its severity is severe or life_threatening, and in warnings
\* exactly when its severity is any other value
C2_ClassificationTotal ==
    \A k \in DOMAIN checked :
        checked[k].outcome = "conflict" =>
            \A f \in Range(checked[k].conflicts) :
                /\ Represented(checked[k].medicine, f, contraindications)
                     <=> f.severity \in {"severe", "life_threatening"}
                /\ Represented(checked[k].medicine, f, warnings)
                     <=> f.severity \notin {"severe", "life_threatening"}

\* C3: in every response is_safe is true exactly when the contraindications
\* list is empty, whatever the number of warnings
C3_SafeIffNoContraindication ==
    Answered => (response.is_safe <=> Len(response.contraindications) = 0)

\* a response that is safe although it carries warnings
C3_Witness ==
    /\ Answered
    /\ response.is_safe
    /\ Len(response.warnings) > 0

HasEntry(medicine, items) == \E x \in Range(items) : x.medicine = medicine

\* C4: in every response each medicine of the input list is in exactly one of
\* safe_medicines, warnings and contraindications
C4_ExactlyOneOutcome ==
    Answered =>
        \A k \in DOMAIN medicines :
            LET m == medicines[k]
                safe == m \in Range(response.safe_medicines)
                warned == HasEntry(m, response.warnings)
                contraindicated == HasEntry(m, response.contraindications)
            IN /\ safe \/ warned \/ contraindicated
               /\ ~(safe /\ warned)
               /\ ~(safe /\ contraindicated)
               /\ ~(warned /\ contraindicated)

\* the agent has returned for the medicine last logged
Returned == oracle_call.state = "returned" /\ checked # <<>>

\* C5: a judgment of the model never adds a contraindication and never turns
\* is_safe to false: every contraindication carries the allergen and severity
\* of a matcher finding against an allergy on the patient's record, a verdict
\* that is not safe has a medicine with findings, and the entry the judgment
\* adds is a warning
C5_OracleOnlyWarns ==
    /\ \A c \in Range(contraindications) :
         \E k \in DOMAIN checked :
            /\ checked[k].medicine = c.medicine
            /\ \E f \in Range(checked[k].conflicts) :
                 /\ f.allergen_name = c.allergen
                 /\ f.severity = c.severity
                 /\ \E a \in Range(patient_allergies) :
                      a.allergen_id = f.allergen_id /\ a.severity = f.severity
    /\ (Answered /\ ~response.is_safe) =>
         \E k \in DOMAIN checked : checked[k].outcome = "conflict"
    /\ (Returned /\ Last(checked).outcome = "advisory") =>
         /\ Last(warnings).medicine = Last(checked).medicine
         /\ Last(warnings).allergen = None

\* the model reported cross-reactivity of critical risk for a medicine
\* without findings, and the lists hold a warning and no contraindication
C5_Witness ==
    /\ Returned
    /\ oracle_call.outcome.kind = "json"
    /\ IsDict(oracle_call.outcome.value)
    /\ HasCrossReactivity(oracle_call.outcome.value)
    /\ Get(oracle_call.outcome.value, "risk_level", "low") = "critical"
    /\ Last(checked).outcome = "advisory"
    /\ warnings # <<>>
    /\ contraindications = <<>>

OracleFailed == oracle_call.outcome.kind \in {"raise", "workflow_error"}

\* C6: when the call of the model raises for a resolved medicine without
\* findings, the agent's result is a record with has_cross_reactivity false
\* and confidence low, no exception reaches the handler, and the medicine
\* ends in safe_medicines or in warnings
C6_OracleFailureAbsorbed ==
    (Returned /\ OracleFailed /\ Last(checked).conflicts = <<>>) =>
        LET result == AgentAnalyzeCrossReactivity(oracle_call.outcome)
            entry == Last(checked)
        IN /\ IsDict(result)
           /\ ~HasCrossReactivity(result)
           /\ Get(result, "confidence", None) = "low"
           /\ raised = <<>>
           /\ pc = "loop"
           /\ entry.outcome \in {"safe", "advisory"}
           /\ entry.outcome = "safe" =>
                safe_medicines # <<>> /\ Last(safe_medicines) = entry.medicine
           /\ entry.outcome = "advisory" =>
                warnings # <<>> /\ Last(warnings).medicine = entry.medicine

\* llm.ainvoke raised for a medicine without findings, which is now safe
C6_Witness ==
    /\ Returned
    /\ oracle_call.outcome.kind = "raise"
    /\ Last(checked).conflicts = <<>>
    /\ Last(checked).outcome = "safe"
    /\ Last(safe_medicines) = Last(checked).medicine
    /\ pc = "loop"

\* C7: for an existing patient check_prescription always ends with a complete
\* result, whatever the collaborators do
C7_AlwaysAnswers ==
    (patient_exists /\ pc \in {"done", "error"}) =>
        /\ response.status = 200
        /\ DOMAIN response = {"status", "is_safe", "warnings",
                              "contraindications", "safe_medicines",
                              "ai_analysis"}

\* C8: a medicine whose evaluation fails is reported as a warning that asks
\* for manual review, and the batch goes on
C8_FailureIsolated ==
    \A k \in DOMAIN checked :
        checked[k].outcome = "error" =>
            /\ pc # "error"
            /\ \E w \in Range(warnings) :
                 /\ w.medicine = checked[k].medicine
                 /\ w.reason = "Manual review needed"

\* C9: for every payload of the model the check of the medicine completes; a
\* payload that is no JSON record, or a record without has_cross_reactivity,
\* counts as no cross-reactivity
C9_EveryPayloadHandled ==
    (Returned /\ oracle_call.outcome.kind \in {"json", "text"}) =>
        /\ Last(checked).outcome # "error"
        /\ ( /\ Last(checked).conflicts = <<>>
             /\ \/ oracle_call.outcome.kind = "text"
                \/ ~IsDict(oracle_call.outcome.value)
                \/ "has_cross_reactivity" \notin
                       DOMAIN oracle_call.outcome.value.fields )
           => Last(checked).outcome = "safe"

\* C10: when the call of the model for one medicine never returns,
\* check_prescription still comes to its end
C10_CompletesWithoutOracle ==
    (oracle_call.state = "never") ~> (pc \in {"done", "error"})

\* "sub in s"
Contains(s, sub) ==
    \E i \in 1..(Len(s) - Len(sub) + 1) : SubSeq(s, i, i + Len(sub) - 1) = sub

\* an entry without allergen and severity that carries the model's explanation
IsAdvisory(w) ==
    /\ w.allergen = None
    /\ w.severity = None
    /\ ~Contains(w.reason, "not found in drug database")

\* C11: for a medicine with at least one finding of the matcher no advisory
\* warning is added, even when the model reports cross-reactivity
C11_NoAdvisoryWithFindings ==
    \A k \in DOMAIN checked :
        checked[k].conflicts # <<>> =>
            ~\E w \in Range(warnings) :
                w.medicine = checked[k].medicine /\ IsAdvisory(w)

\* the model reported cross-reactivity for a medicine with findings
C11_Witness ==
    /\ Returned
    /\ Last(checked).conflicts # <<>>
    /\ oracle_call.outcome.kind = "json"
    /\ IsDict(oracle_call.outcome.value)
    /\ HasCrossReactivity(oracle_call.outcome.value)
    /\ pc = "loop"

\* the loop is at a medicine whose name has no catalog row
AtUnresolved ==
    /\ pc = "loop"
    /\ idx <= Len(medicines)
    /\ FindDrug(CleanMedicineName(medicines[idx])) = NoRow

\* C12: the step for a name that does not resolve, unless a query fails,
\* appends one warning for it whose reason includes "not found", adds no
\* contraindication and no safe_medicines entry, runs neither the matcher nor
\* the model, and goes on to the next medicine
C12_NotFoundOnlyWarns ==
    [][ (AtUnresolved /\ pc' # "error") =>
            /\ Len(warnings') = Len(warnings) + 1
            /\ SubSeq(warnings', 1, Len(warnings)) = warnings
            /\ Last(warnings').medicine = medicines[idx]
            /\ Contains(Last(warnings').reason, "not found")
            /\ UNCHANGED <<contraindications, safe_medicines>>
            /\ direct_conflicts' = <<>>
            /\ oracle_call' = NoCall
            /\ idx' = idx + 1
            /\ pc' = "loop" ]_vars

\* a name did not resolve and the medicine after it has been evaluated
C12_Witness ==
    /\ Len(checked) = 2
    /\ checked[1].outcome = "not_found"
    /\ checked[2].outcome \in {"conflict", "safe", "advisory"}
    /\ \E w \in Range(warnings) :
         w.medicine = checked[1].medicine /\ Contains(w.reason, "not found")

\* C13: a response without warnings and contraindications is safe, reports
\* risk_level low, and lists every input medicine in safe_medicines once, in
\* the input order
C13_CleanResponse ==
    (Answered /\ response.warnings = <<>> /\ response.contraindications = <<>>)
        => /\ response.is_safe
           /\ response.safe_medicines = medicines
           /\ response.ai_analysis.risk_level = "low"

\* the entries of a list for one medicine
EntriesOf(medicine, items) == SelectSeq(items, LAMBDA x : x.medicine = medicine)

\* the allergens mapped to the drug of a log entry
MappedTo(entry) == DrugAllergenIds([id |-> entry.drug_id])

GroupOf(id) == AllergenById(id).cross_sensitivity_group

\* C14: with one active allergy, severe, to an allergen the drug is mapped to,
\* the medicine has exactly one contraindication, for that allergen and with
\* severity severe
C14_OneContraindication ==
    \A k \in DOMAIN checked :
        ( /\ checked[k].outcome = "conflict"
          /\ Len(patient_allergies) = 1
          /\ patient_allergies[1].severity = "severe"
          /\ patient_allergies[1].allergen_id \in MappedTo(checked[k]) )
        => LET of_medicine == EntriesOf(checked[k].medicine, contraindications)
           IN /\ Len(of_medicine) = 1
              /\ of_medicine[1].allergen =
                   AllergenById(patient_allergies[1].allergen_id).allergen_name
              /\ of_medicine[1].severity = "severe"

\* the matcher returned the allergen twice, as a direct and as a
\* cross-sensitivity finding, and the medicine has one contraindication
C14_Witness ==
    /\ checked # <<>>
    /\ Len(patient_allergies) = 1
    /\ patient_allergies[1].severity = "severe"
    /\ Len(Last(checked).conflicts) = 2
    /\ Last(checked).conflicts[1].conflict_type = "direct"
    /\ Last(checked).conflicts[2].conflict_type = "cross_sensitivity"
    /\ Last(checked).conflicts[2].allergen_id = Last(checked).conflicts[1].allergen_id
    /\ Len(EntriesOf(Last(checked).medicine, contraindications)) = 1

\* C15: with one active allergy, moderate, to an allergen A of a group, and a
\* drug mapped to another allergen of that group and not to A, the medicine
\* has exactly one warning and that warning carries conflict_type
\* cross_sensitivity
C15_CrossSensitivityWarning ==
    \A k \in DOMAIN checked :
        ( /\ checked[k].outcome = "conflict"
          /\ Len(patient_allergies) = 1
          /\ patient_allergies[1].severity = "moderate"
          /\ HasGroup(patient_allergies[1].allergen_id)
          /\ patient_allergies[1].allergen_id \notin MappedTo(checked[k])
          /\ \E b \in MappedTo(checked[k]) :
               /\ HasGroup(b)
               /\ GroupOf(b) = GroupOf(patient_allergies[1].allergen_id) )
        => LET of_medicine == EntriesOf(checked[k].medicine, warnings)
           IN /\ Len(of_medicine) = 1
              /\ "conflict_type" \in DOMAIN of_medicine[1]
              /\ of_medicine[1].conflict_type = "cross_sensitivity"

\* C16: the matcher returns a cross_sensitivity finding for an allergy to an
\* allergen only when the drug is mapped to a different allergen of the same
\* group
C16_CrossNeedsOtherAllergen ==
    \A k \in DOMAIN checked :
        \A f \in Range(checked[k].conflicts) :
            f.conflict_type = "cross_sensitivity" =>
                \E b \in MappedTo(checked[k]) :
                    /\ b # f.allergen_id
                    /\ HasGroup(b)
                    /\ GroupOf(b) = f.cross_sensitivity_group

\* an allergy row with status active of this allergen name and severity is on
\* the patient's record
ActiveOnRecord(allergen_name, severity) ==
    \E r \in patient_allergy_table :
        /\ r.status = "active"
        /\ AllergenById(r.allergen_id) # NoRow
        /\ AllergenById(r.allergen_id).allergen_name = allergen_name
        /\ r.severity = severity

\* C17: only allergy records with status active take part: every finding,
\* every warning or contraindication that names an allergen, and every
\* allergy record handed to the model belongs to an active row
C17_OnlyActiveTakePart ==
    /\ \A k \in DOMAIN checked :
         \A f \in Range(checked[k].conflicts) :
            ActiveOnRecord(f.allergen_name, f.severity)
    /\ \A f \in Range(direct_conflicts) :
         ActiveOnRecord(f.allergen_name, f.severity)
    /\ \A x \in Range(warnings) \cup Range(contraindications) :
         x.allergen # None => ActiveOnRecord(x.allergen, x.severity)
    /\ oracle_call.state \in {"pending", "never"} =>
         \A d \in Range(oracle_call.allergy_data) :
            ActiveOnRecord(d.allergen_name, d.severity)

\* a drug mapped to an allergen of an allergy that is not active was checked
\* and the medicine is safe
C17_Witness ==
    /\ checked # <<>>
    /\ Last(checked).outcome = "safe"
    /\ \E r \in patient_allergy_table :
         /\ r.status = "resolved"
         /\ r.allergen_id \in MappedTo(Last(checked))
    /\ \E r \in patient_allergy_table :
         /\ r.status = "inactive"
         /\ r.allergen_id \in MappedTo(Last(checked))
    /\ warnings = <<>>
    /\ contraindications = <<>>

\* C18: two invocations with the same allergies, catalog, medicine list and
\* answers of the model yield the same lists. These inputs fix everything a
\* medicine's check reads except the order in which the process iterates the
\* set of overlapping groups, so the entries the check adds must be the same
\* for either order
C18_SameInputsSameOutput ==
    pc = "await_oracle" =>
        LET medicine_name == medicines[idx]
            drug == FindDrug(CleanMedicineName(medicine_name))
        IN \A order \in {"asc", "desc"} :
             CombineConflicts(
                 CheckDirectAllergies(patient_allergies, drug, order),
                 medicine_name, warnings, contraindications)
             = CombineConflicts(direct_conflicts, medicine_name, warnings,
                                contraindications)

RECURSIVE FollowsInput(_, _, _)
\* the medicines of the entries can be read off the input list from position
\* from on without going back
FollowsInput(names, input, from) ==
    IF names = <<>> THEN TRUE
    ELSE LET later == {p \in from..Len(input) : input[p] = Head(names)}
         IN /\ later # {}
            /\ FollowsInput(Tail(names), input,
                            CHOOSE p \in later : \A q \in later : p <= q)

MedicinesOf(items) == [k \in DOMAIN items |-> items[k].medicine]

\* C19: in every response the entries of warnings, of contraindications and
\* of safe_medicines each follow the order of the input medicine list
C19_InputOrder ==
    Answered =>
        /\ FollowsInput(MedicinesOf(response.warnings), medicines, 1)
        /\ FollowsInput(MedicinesOf(response.contraindications), medicines, 1)
        /\ FollowsInput(response.safe_medicines, medicines, 1)

\* a response whose warnings are for two different medicines, the second an
\* advisory one
C19_Witness ==
    /\ Answered
    /\ Len(response.warnings) = 2
    /\ response.warnings[1].medicine # response.warnings[2].medicine
    /\ IsAdvisory(response.warnings[2])

\* C20: no step of check_prescription, successful or failing, changes the
\* patient allergy records, the allergens, the drugs or the drug-allergen
\* mappings; only prescriptions and alerts are written
C20_AllergyDataUnchanged == [][UNCHANGED tables]_vars

\* the audit rows of a check with alerts were written
C20_Witness ==
    /\ pc = "done"
    /\ prescriptions # <<>>
    /\ allergy_alerts # <<>>
    /\ patient_allergy_table # {}

\* the ordering low < medium < high < critical
RiskRank(level) ==
    CASE level = "low" -> 1
      [] level = "medium" -> 2
      [] level = "high" -> 3
      [] level = "critical" -> 4
      [] OTHER -> 0

\* the risk a finding stands for, by its severity
RiskOf(entry) ==
    CASE entry.severity = "life_threatening" -> "critical"
      [] entry.severity = "severe" -> "high"
      [] entry.severity = "moderate" -> "medium"
      [] OTHER -> "low"

\* the maximum of the risks of the findings, low when there are none
MaxRisk(entries) ==
    IF entries = <<>> THEN "low"
    ELSE CHOOSE level \in {RiskOf(e) : e \in Range(entries)} :
            \A e \in Range(entries) : RiskRank(RiskOf(e)) <= RiskRank(level)

\* C21: the risk level reported with a result is the maximum, under
\* low < medium < high < critical, over the findings of the check, and low
\* when there are none
C21_RiskIsMaximum ==
    Answered => response.ai_analysis.risk_level = MaxRisk(Entries(response))

\* C29: a finding is dropped only when an earlier entry has its medicine,
\* allergen and severity: every finding the matcher returned has an entry
\* with its triple in warnings or contraindications, also when names
\* contain the character that joins the key
C29_DropsOnlySameTriple ==
    \A k \in DOMAIN checked :
        \A f \in Range(checked[k].conflicts) :
            Represented(checked[k].medicine, f, warnings \o contraindications)

\* C30: without a patient of the requested name check_prescription ends
\* with the 404 it raises, evaluates no medicine and writes no audit record
C30_NotFoundIs404 ==
    (~patient_exists /\ pc # "start") =>
        /\ pc = "error"
        /\ response.status = 404
        /\ checked = <<>>
        /\ prescriptions = <<>>
        /\ allergy_alerts = <<>>

\* the drug the loop is at
CurrentDrug == FindDrug(CleanMedicineName(medicines[idx]))

\* the cross_sensitivity findings among those the matcher returned
CrossFindings(conflicts) ==
    SelectSeq(conflicts, LAMBDA f : f.conflict_type = "cross_sensitivity")

\* the non-null groups of the allergens with these ids
GroupsOf(ids) ==
    {a.cross_sensitivity_group :
        a \in {x \in drug_allergens : x.id \in ids}} \ {None}

\* the reference algorithm: one finding per patient allergy whose group is
\* among the groups of the drug's allergens, with the patient's severity
ReferenceCrossFindings(allergies, drug) ==
    LET shared == GroupsOf({a.allergen_id : a \in Range(allergies)})
                  \cap GroupsOf(DrugAllergenIds(drug))
    IN { [ allergy |-> k,
           allergen_id |-> a.id,
           allergen_name |-> a.allergen_name,
           severity |-> allergies[k].severity,
           conflict_type |-> "cross_sensitivity",
           cross_sensitivity_group |-> a.cross_sensitivity_group ] :
         <<k, a>> \in {q \in (DOMAIN allergies) \X drug_allergens :
                          /\ q[2].id = allergies[q[1]].allergen_id
                          /\ q[2].cross_sensitivity_group \in shared} }

\* C27: the cross-sensitivity findings of the matcher are those of the
\* reference algorithm, one per patient allergy whose non-null group is also
\* a group of the drug's allergens, with the patient's severity
C27_CrossFindingsAsReference ==
    pc = "await_oracle" =>
        LET found == CrossFindings(direct_conflicts)
            expected == ReferenceCrossFindings(patient_allergies, CurrentDrug)
        IN /\ Len(found) = Cardinality(expected)
           /\ Range(found) =
                { [ allergen_id |-> e.allergen_id,
                    allergen_name |-> e.allergen_name,
                    severity |-> e.severity,
                    conflict_type |-> e.conflict_type,
                    cross_sensitivity_group |-> e.cross_sensitivity_group ] :
                  e \in expected }

\* the matcher ran for a patient with an allergen without group that the
\* drug is mapped to, next to a finding of a group
C27_Witness ==
    /\ pc = "await_oracle"
    /\ CrossFindings(direct_conflicts) # <<>>
    /\ \E a \in Range(patient_allergies) :
         /\ a.allergen_id \in DrugAllergenIds(CurrentDrug)
         /\ AllergenById(a.allergen_id) # NoRow
         /\ AllergenById(a.allergen_id).cross_sensitivity_group = None

\* the allergies whose allergen row the catalog holds
KnownAllergies(allergies) ==
    SelectSeq(allergies, LAMBDA a : AllergenById(a.allergen_id) # NoRow)

\* C28: an allergy or a mapping whose allergen id is missing from the
\* catalog is skipped: the matcher returns what it returns for the other
\* allergies and mappings, and no finding names the missing allergen
C28_MissingAllergenSkipped ==
    pc = "await_oracle" =>
        LET known == KnownAllergies(patient_allergies)
            known_ids == {x \in DrugAllergenIds(CurrentDrug) :
                             AllergenById(x) # NoRow}
        IN /\ direct_conflicts =
                CheckDirectAllergies(known, CurrentDrug, hash_order)
           /\ CrossFindings(direct_conflicts) =
                CheckCrossSensitivity(known, known_ids, hash_order)
           /\ \A f \in Range(direct_conflicts) :
                AllergenById(f.allergen_id) # NoRow

\* the matcher returned findings for a patient with an allergy to a missing
\* allergen and a drug mapped to it
C28_Witness ==
    /\ pc = "await_oracle"
    /\ direct_conflicts # <<>>
    /\ \E a \in Range(patient_allergies) :
         /\ AllergenById(a.allergen_id) = NoRow
         /\ a.allergen_id \in DrugAllergenIds(CurrentDrug)

\* C25: the string a medicine is looked up by neither starts nor ends with a
\* space or a quote, whatever spaces and quotes the name came wrapped in
C25_LookupNameTrimmed ==
    lookup_name # None =>
        /\ lookup_name # ""
        /\ SubSeq(lookup_name, 1, 1) \notin WrapChars
        /\ SubSeq(lookup_name, Len(lookup_name), Len(lookup_name))
                \notin WrapChars

\* C26: the list of names passed on to the prescription check from an
\* uploaded prescription holds at most 10 names
C26_AtMostTenChecked ==
    Len(upload.request_medicines) <= 10

\* the calls are made one after the other, by one session
Sequential == DOMAIN calls = {1}

\* the rows of a catalog a name is found in
FoundByName(catalog, allergen_name) ==
    {a \in catalog : LikeMatch("%" \o allergen_name \o "%", a.allergen_name)}

\* call k + 1 repeats call k
Repeats(k, op) ==
    /\ k + 1 \in DOMAIN history
    /\ history[k].op = op
    /\ history[k + 1].op = op
    /\ history[k + 1].arg = history[k].arg

\* C22: create_allergen_if_not_exists returns the record found by the name
\* and inserts nothing, or inserts exactly one record of that name; called
\* twice in sequence with one name it returns the same allergen and leaves
\* the catalog as the first call left it
C22_CreateIdempotent ==
    Sequential =>
        \A k \in DOMAIN history :
            LET call == history[k] IN
            call.op = "create" =>
                /\ IF FoundByName(call.before, call.arg) # {}
                   THEN /\ call.returned \in FoundByName(call.before, call.arg)
                        /\ call.after = call.before
                   ELSE /\ call.returned \notin call.before
                        /\ call.returned.allergen_name = call.arg
                        /\ call.after = call.before \cup {call.returned}
                /\ Repeats(k, "create") =>
                        /\ history[k + 1].returned = call.returned
                        /\ history[k + 1].after = call.after

\* a name that was not on record was created, then asked for again
C22_Witness ==
    /\ Sequential
    /\ \E k \in DOMAIN history :
         /\ Repeats(k, "create")
         /\ history[k].inserted # {}

\* C23: a second map_drug_to_allergen call with the same pair changes
\* nothing and is no error, and no pair is inserted more than once
C23_MapIdempotent ==
    Sequential =>
        /\ \A k \in DOMAIN history :
             LET call == history[k] IN
             call.op = "map" =>
                 /\ call.error = None
                 /\ call.after = call.before \cup
                        {[drug_id |-> call.arg[1], allergen_id |-> call.arg[2]]}
                 /\ Repeats(k, "map") =>
                        history[k + 1].after = call.after
        /\ \A pair \in MapPairs :
             Cardinality({k \in DOMAIN history :
                            /\ history[k].op = "map"
                            /\ history[k].arg = pair
                            /\ history[k].inserted # {}}) <= 1

\* a pair that was not on record was mapped, then mapped again
C23_Witness ==
    /\ Sequential
    /\ \E k \in DOMAIN history :
         /\ Repeats(k, "map")
         /\ history[k].inserted # {}

\* C24: of two create_allergen_if_not_exists calls for one name made by two
\* sessions, however their lookups and inserts interleave, at most one
\* inserts a record and both return the same record
C24_OneRecordPerName ==
    \A j, k \in DOMAIN history :
        ( /\ j < k
          /\ history[j].op = "create"
          /\ history[k].op = "create"
          /\ history[j].arg = history[k].arg
          /\ history[j].session # history[k].session )
        => /\ Cardinality(history[j].inserted \cup history[k].inserted) <= 1
           /\ history[j].returned = history[k].returned

====
